---- MODULE Spec2Model ----
(***************************************************************************)
(* Model of bintotxt (src/bintotxt/bintotxt.go): main parses two flags,    *)
(* readGraph decodes a little-endian int16 graph dump, writeEdges renders   *)
(* the edge list as text.  The program is sequential; pc is the position   *)
(* of the single thread of control.                                        *)
(***************************************************************************)
EXTENDS Integers, Sequences, FiniteSets, TLC

VARIABLES
    pc,          \* position of control in main / readGraph / writeEdges
    inputFile,   \* *inputFile  after flag.Parse ("" when -i is omitted)
    outputFile,  \* *outputFile after flag.Parse
    inBytes,     \* content of the input file on disk (a sequence of bytes)
    outFs,       \* the output paths on disk: path -> [exists, data]
    outFs0,      \* history: outFs when the program started
    inFd,        \* readGraph's file handle: "none", "open" or "closed"
    pos,         \* read offset of readGraph's file handle
    outFd,       \* writeEdges' file handle: "none", "open" or "closed"
    rgDefer,     \* readGraph has registered defer file.Close()
    weDefer,     \* writeEdges has registered defer file.Close()
    numVertices, \* readGraph's local numVertices
    from,        \* readGraph's local from
    to,          \* readGraph's local to
    edges,       \* readGraph's local edges
    retN,        \* main's numVertices (first result of readGraph)
    retEdges,    \* main's edges (second result of readGraph)
    err,         \* main's err (result of readGraph, then of writeEdges)
    wi,          \* writeEdges: index of the next edge of the range loop
    writes,      \* writeEdges: number of Fprintln calls made
    stdout       \* what main printed, in order

vars == <<pc, inputFile, outputFile, inBytes, outFs, outFs0, inFd, pos, outFd,
          rgDefer, weDefer, numVertices, from, to, edges, retN, retEdges,
          err, wi, writes, stdout>>

(* ------------------------------ bounds --------------------------------- *)

\* Longest run of 16-bit words after the header in an input file.
MaxRecWords == 6

(* --------------------------- input alphabet ---------------------------- *)

\* Header values tried: negative, zero, one, two.
NVals == {-32768, 0, 1, 2}
\* Values tried for the words of the records.
WVals == {-32768, 0, 1}
\* The byte of a file that ends in the middle of a word.
TailBytes == {255}
\* Paths the -o flag may name ("output.txt" is the flag's default).
OutPaths == {"output.txt", "edges.txt"}
InPath == "graph.bin"
\* Content of an output file left by an earlier run.
OldData == <<"o", "l", "d", "\n">>

BoundedSeq(S, n) == UNION {[1..k -> S] : k \in 0..n}

\* Two's-complement little-endian bytes of an int16.
EncodeLE(v) ==
    LET u == IF v < 0 THEN v + 65536 ELSE v
    IN  <<u % 256, u \div 256>>

RECURSIVE EncodeWords(_)
EncodeWords(ws) ==
    IF ws = <<>> THEN <<>> ELSE EncodeLE(Head(ws)) \o EncodeWords(Tail(ws))

\* The input files tried: empty, one byte, or a header followed by words
\* and possibly one odd byte.
Inputs ==
    {<<>>} \cup {<<b>> : b \in TailBytes}
    \cup {EncodeLE(n) \o EncodeWords(ws) \o tl :
            n \in NVals, ws \in BoundedSeq(WVals, MaxRecWords),
            tl \in {<<>>} \cup {<<b>> : b \in TailBytes}}

(* ------------------------------ errors --------------------------------- *)

NoErr == [kind |-> "nil", from |-> 0, to |-> 0]
Err(k) == [kind |-> k, from |-> 0, to |-> 0]
\* fmt.Errorf("... from=%d, to=%d", from, to)
IndexErr(f, t) == [kind |-> "indices", from |-> f, to |-> t]

(* --------------------------- encoding/binary --------------------------- *)

\* Mutant: the two bytes taken in big-endian order.
BigEndianInt16(b) ==
    LET u == 256 * b[1] + b[2]
    IN  IF u >= 32768 THEN u - 65536 ELSE u

\* binary.LittleEndian.Uint16 followed by the conversion to int16.
LittleEndianInt16(b) ==
    LET u == b[1] + 256 * b[2]
    IN  IF u >= 32768 THEN u - 65536 ELSE u

\* Mutant: a read that finds one byte reports io.EOF like an empty read.
BinaryReadShortIsEOF(bytes, p) ==
    LET avail == Len(bytes) - p
    IN  IF avail <= 1 THEN [e |-> "EOF", v |-> 0, p |-> p + avail]
        ELSE [e |-> "nil",
              v |-> LittleEndianInt16(<<bytes[p + 1], bytes[p + 2]>>),
              p |-> p + 2]

\* binary.Read(file, binary.LittleEndian, &v) for an int16 v: io.ReadFull of
\* two bytes at offset p.  No byte left is io.EOF, one byte left is
\* io.ErrUnexpectedEOF (and the byte is consumed).
BinaryRead(bytes, p) ==
    LET avail == Len(bytes) - p
    IN  IF avail = 0 THEN [e |-> "EOF", v |-> 0, p |-> p]
        ELSE IF avail = 1 THEN [e |-> "ErrUnexpectedEOF", v |-> 0, p |-> p + 1]
        ELSE [e |-> "nil",
              v |-> LittleEndianInt16(<<bytes[p + 1], bytes[p + 2]>>),
              p |-> p + 2]

\* Mutant: the upper bound of to is not checked.
BadIndicesNoToBound(f, t, n) == f < 0 \/ f >= n \/ t < 0

\* The index check of readGraph.
BadIndices(f, t, n) == f < 0 \/ f >= n \/ t < 0 \/ t >= n

(* -------------------------------- fmt ---------------------------------- *)

DigitChar == <<"0", "1", "2", "3", "4", "5", "6", "7", "8", "9">>

RECURSIVE Digits(_)
Digits(n) ==
    IF n < 10 THEN <<DigitChar[n + 1]>>
    ELSE Digits(n \div 10) \o <<DigitChar[(n % 10) + 1]>>

\* The verb %d applied to an int16.
FmtD(x) == IF x < 0 THEN <<"-">> \o Digits(-x) ELSE Digits(x)

\* Mutant: the vertices are printed one-based, as the comment in the loop
\* of writeEdges announces.
EdgeLineOneBased(e) ==
    <<"(">> \o FmtD(e.from + 1) \o <<",", " ">> \o FmtD(e.to + 1)
            \o <<",", " ">> \o FmtD(e.weight) \o <<")">>

\* fmt.Sprintf("(%d, %d, %d)", edge.from, edge.to, edge.weight)
EdgeLine(e) ==
    <<"(">> \o FmtD(e.from) \o <<",", " ">> \o FmtD(e.to) \o <<",", " ">>
            \o FmtD(e.weight) \o <<")">>

\* The header text of writeEdges, transliterated and kept as one token (a
\* short write leaves either none of it or all of it without the newline).
HeaderText == <<"Spisok reber grafa:">>

\* fmt.Fprintln appends a newline to its operand.
Println(s) == s \o <<"\n">>

(* ------------------------------- Init ---------------------------------- *)

Init ==
    /\ pc = "main"
    /\ inputFile = ""
    /\ outputFile = "output.txt"
    /\ inBytes \in Inputs
    /\ \E prior \in {[exists |-> FALSE, data |-> <<>>],
                     [exists |-> TRUE, data |-> OldData]} :
           outFs = [p \in OutPaths |-> prior]
    /\ outFs0 = outFs
    /\ inFd = "none"
    /\ pos = 0
    /\ outFd = "none"
    /\ rgDefer = FALSE
    /\ weDefer = FALSE
    /\ numVertices = 0
    /\ from = 0
    /\ to = 0
    /\ edges = <<>>
    /\ retN = 0
    /\ retEdges = <<>>
    /\ err = NoErr
    /\ wi = 1
    /\ writes = 0
    /\ stdout = <<>>

(* ------------------------------- main ---------------------------------- *)

\* Mutant: the usage message is printed but main goes on.
MainParseGoesOn ==
    /\ pc = "main"
    /\ \E i \in {"", InPath}, o \in OutPaths :
          /\ inputFile' = i
          /\ outputFile' = o
          /\ stdout' = IF i = "" THEN Append(stdout, "usage") ELSE stdout
          /\ pc' = "rg_open"
    /\ UNCHANGED <<inBytes, outFs, outFs0, inFd, pos, outFd, rgDefer,
                   weDefer, numVertices, from, to, edges, retN, retEdges,
                   err, wi, writes>>

\* flag.Parse and the test of *inputFile.
MainParse ==
    /\ pc = "main"
    /\ \E i \in {"", InPath}, o \in OutPaths :
          /\ inputFile' = i
          /\ outputFile' = o
          /\ IF i = ""
             THEN /\ stdout' = Append(stdout, "usage")
                  /\ pc' = "exit"
             ELSE /\ stdout' = stdout
                  /\ pc' = "rg_open"
    /\ UNCHANGED <<inBytes, outFs, outFs0, inFd, pos, outFd, rgDefer, weDefer,
                   numVertices, from, to, edges, retN, retEdges, err, wi,
                   writes>>

(* ----------------------------- readGraph ------------------------------- *)

\* A return statement of readGraph: the results are set, the deferred call
\* runs in RgReturn.
RgResult(n, es, e) ==
    /\ retN' = n
    /\ retEdges' = es
    /\ err' = e
    /\ pc' = "rg_ret"

\* Mutant: an error return hands back what was decoded so far.
RgFailPartial(e) == RgResult(numVertices, edges, e)

\* An error return of readGraph: return 0, nil, fmt.Errorf(...).
RgFail(e) == RgResult(0, <<>>, e)

\* os.Open(filename) and defer file.Close().
RgOpen ==
    /\ pc = "rg_open"
    /\ \/ /\ inFd' = "open"
          /\ pos' = 0
          /\ rgDefer' = TRUE
          /\ pc' = "rg_header"
          /\ UNCHANGED <<retN, retEdges, err>>
       \/ /\ RgFail(Err("open"))
          /\ UNCHANGED <<inFd, pos, rgDefer>>
    /\ UNCHANGED <<inputFile, outputFile, inBytes, outFs0, outFs, outFd, weDefer,
                   numVertices, from, to, edges, wi, writes, stdout>>

\* Read numVertices; edges := []Edge{}.
RgHeader ==
    /\ pc = "rg_header"
    /\ LET r == BinaryRead(inBytes, pos)
       IN  /\ pos' = r.p
           /\ IF r.e # "nil"
              THEN /\ RgFail(Err("header"))
                   /\ UNCHANGED <<numVertices, edges>>
              ELSE /\ numVertices' = r.v
                   /\ edges' = <<>>
                   /\ pc' = "rg_from"
                   /\ UNCHANGED <<retN, retEdges, err>>
    /\ UNCHANGED <<inputFile, outputFile, inBytes, outFs0, outFs, inFd, outFd,
                   rgDefer, weDefer, from, to, wi, writes, stdout>>

\* Read from; io.EOF here leaves the loop and returns the edges read.
RgFrom ==
    /\ pc = "rg_from"
    /\ LET r == BinaryRead(inBytes, pos)
       IN  /\ pos' = r.p
           /\ IF r.e = "EOF"
              THEN /\ RgResult(numVertices, edges, NoErr)
                   /\ UNCHANGED from
              ELSE IF r.e # "nil"
              THEN /\ RgFail(Err("from"))
                   /\ UNCHANGED from
              ELSE /\ from' = r.v
                   /\ pc' = "rg_to"
                   /\ UNCHANGED <<retN, retEdges, err>>
    /\ UNCHANGED <<inputFile, outputFile, inBytes, outFs0, outFs, inFd, outFd,
                   rgDefer, weDefer, numVertices, to, edges, wi, writes,
                   stdout>>

\* Read to.
RgTo ==
    /\ pc = "rg_to"
    /\ LET r == BinaryRead(inBytes, pos)
       IN  /\ pos' = r.p
           /\ IF r.e # "nil"
              THEN /\ RgFail(Err("to"))
                   /\ UNCHANGED to
              ELSE /\ to' = r.v
                   /\ pc' = "rg_weight"
                   /\ UNCHANGED <<retN, retEdges, err>>
    /\ UNCHANGED <<inputFile, outputFile, inBytes, outFs0, outFs, inFd, outFd,
                   rgDefer, weDefer, numVertices, from, edges, wi, writes,
                   stdout>>

\* Mutant: the indices are checked before the weight is read.
RgWeightCheckFirst ==
    /\ pc = "rg_weight"
    /\ LET r == BinaryRead(inBytes, pos)
       IN  IF BadIndices(from, to, numVertices)
           THEN /\ RgFail(IndexErr(from, to))
                /\ UNCHANGED <<edges, pos>>
           ELSE /\ pos' = r.p
                /\ IF r.e # "nil"
                   THEN /\ RgFail(Err("weight"))
                        /\ UNCHANGED edges
                   ELSE /\ edges' = Append(edges,
                                 [from |-> from, to |-> to, weight |-> r.v])
                        /\ pc' = "rg_from"
                        /\ UNCHANGED <<retN, retEdges, err>>
    /\ UNCHANGED <<inputFile, outputFile, inBytes, outFs0, outFs, inFd,
                   outFd, rgDefer, weDefer, numVertices, from, to, wi,
                   writes, stdout>>

\* Read weight, check the indices, append the edge.
RgWeight ==
    /\ pc = "rg_weight"
    /\ LET r == BinaryRead(inBytes, pos)
       IN  /\ pos' = r.p
           /\ IF r.e # "nil"
              THEN /\ RgFail(Err("weight"))
                   /\ UNCHANGED edges
              ELSE IF BadIndices(from, to, numVertices)
              THEN /\ RgFail(IndexErr(from, to))
                   /\ UNCHANGED edges
              ELSE /\ edges' = Append(edges,
                                 [from |-> from, to |-> to, weight |-> r.v])
                   /\ pc' = "rg_from"
                   /\ UNCHANGED <<retN, retEdges, err>>
    /\ UNCHANGED <<inputFile, outputFile, inBytes, outFs0, outFs, inFd, outFd,
                   rgDefer, weDefer, numVertices, from, to, wi, writes,
                   stdout>>

\* Mutant: readGraph returns without closing its file.
RgReturnNoClose ==
    /\ pc = "rg_ret"
    /\ pc' = "main_read"
    /\ UNCHANGED <<inputFile, outputFile, inBytes, outFs0, outFs, inFd, pos,
                   outFd, rgDefer, weDefer, numVertices, from, to, edges,
                   retN, retEdges, err, wi, writes, stdout>>

\* The deferred file.Close() of readGraph runs and control is back in main.
RgReturn ==
    /\ pc = "rg_ret"
    /\ inFd' = IF rgDefer THEN "closed" ELSE inFd
    /\ pc' = "main_read"
    /\ UNCHANGED <<inputFile, outputFile, inBytes, outFs0, outFs, pos, outFd,
                   rgDefer, weDefer, numVertices, from, to, edges, retN,
                   retEdges, err, wi, writes, stdout>>

\* main after readGraph: report the error and return, or print the summary.
MainAfterRead ==
    /\ pc = "main_read"
    /\ IF err # NoErr
       THEN /\ stdout' = Append(stdout, "read error")
            /\ pc' = "exit"
       ELSE /\ stdout' = Append(stdout, "summary")
            /\ pc' = "we_create"
    /\ UNCHANGED <<inputFile, outputFile, inBytes, outFs0, outFs, inFd, pos, outFd,
                   rgDefer, weDefer, numVertices, from, to, edges, retN,
                   retEdges, err, wi, writes>>

(* ----------------------------- writeEdges ------------------------------ *)

\* The first k elements of s.
Take(s, k) == SubSeq(s, 1, k)

\* file.Write(buf) through fmt.Fprintln: all of buf reaches the file, or the
\* write fails after only the first k < Len(buf) bytes reached it.
WriteOutcomes(buf) ==
    {[ok |-> TRUE, put |-> buf]}
    \cup {[ok |-> FALSE, put |-> Take(buf, k)] : k \in 0..(Len(buf) - 1)}

\* The file at path p after w.put was written at its end.
Written(fs, p, w) ==
    [fs EXCEPT ![p] = [exists |-> TRUE, data |-> fs[p].data \o w.put]]

\* os.Create(filename) and defer file.Close(): the file is created or
\* truncated; a failed create leaves the disk alone.
WeCreate ==
    /\ pc = "we_create"
    /\ \/ /\ outFs' = [outFs EXCEPT ![outputFile] =
                                      [exists |-> TRUE, data |-> <<>>]]
          /\ outFd' = "open"
          /\ weDefer' = TRUE
          /\ pc' = "we_header"
          /\ UNCHANGED err
       \/ /\ err' = Err("create")
          /\ pc' = "we_ret"
          /\ UNCHANGED <<outFs, outFd, weDefer>>
    /\ wi' = 1
    /\ writes' = 0
    /\ UNCHANGED <<inputFile, outputFile, inBytes, outFs0, inFd, pos, rgDefer,
                   numVertices, from, to, edges, retN, retEdges, stdout>>

\* fmt.Fprintln(file, header).
WeHeader ==
    /\ pc = "we_header"
    /\ \E w \in WriteOutcomes(Println(HeaderText)) :
          /\ outFs' = Written(outFs, outputFile, w)
          /\ IF w.ok
             THEN /\ pc' = "we_edge"
                  /\ UNCHANGED err
             ELSE /\ err' = Err("write header")
                  /\ pc' = "we_ret"
    /\ writes' = writes + 1
    /\ UNCHANGED <<inputFile, outputFile, inBytes, outFs0, inFd, pos, outFd, rgDefer,
                   weDefer, numVertices, from, to, edges, retN, retEdges,
                   wi, stdout>>

\* One iteration of the range loop over edges: format the edge, write it.
WeEdge ==
    /\ pc = "we_edge"
    /\ wi <= Len(retEdges)
    /\ \E w \in WriteOutcomes(Println(EdgeLine(retEdges[wi]))) :
          /\ outFs' = Written(outFs, outputFile, w)
          /\ IF w.ok
             THEN /\ wi' = wi + 1
                  /\ UNCHANGED <<pc, err>>
             ELSE /\ err' = Err("write edge")
                  /\ pc' = "we_ret"
                  /\ UNCHANGED wi
    /\ writes' = writes + 1
    /\ UNCHANGED <<inputFile, outputFile, inBytes, outFs0, inFd, pos, outFd, rgDefer,
                   weDefer, numVertices, from, to, edges, retN, retEdges,
                   stdout>>

\* The range loop is over: return nil.
WeDone ==
    /\ pc = "we_edge"
    /\ wi > Len(retEdges)
    /\ err' = NoErr
    /\ pc' = "we_ret"
    /\ UNCHANGED <<inputFile, outputFile, inBytes, outFs0, outFs, inFd, pos, outFd,
                   rgDefer, weDefer, numVertices, from, to, edges, retN,
                   retEdges, wi, writes, stdout>>

\* Mutant: writeEdges closes its file on the successful path only.
WeReturnCloseOnSuccess ==
    /\ pc = "we_ret"
    /\ outFd' = IF weDefer /\ err = NoErr THEN "closed" ELSE outFd
    /\ pc' = "main_written"
    /\ UNCHANGED <<inputFile, outputFile, inBytes, outFs0, outFs, inFd, pos,
                   rgDefer, weDefer, numVertices, from, to, edges, retN,
                   retEdges, err, wi, writes, stdout>>

\* The deferred file.Close() of writeEdges runs and control is back in main.
WeReturn ==
    /\ pc = "we_ret"
    /\ outFd' = IF weDefer THEN "closed" ELSE outFd
    /\ pc' = "main_written"
    /\ UNCHANGED <<inputFile, outputFile, inBytes, outFs0, outFs, inFd, pos, rgDefer,
                   weDefer, numVertices, from, to, edges, retN, retEdges,
                   err, wi, writes, stdout>>

\* main after writeEdges: report the error or the success, and return.
MainAfterWrite ==
    /\ pc = "main_written"
    /\ stdout' = Append(stdout, IF err # NoErr THEN "write error" ELSE "written")
    /\ pc' = "exit"
    /\ UNCHANGED <<inputFile, outputFile, inBytes, outFs0, outFs, inFd, pos, outFd,
                   rgDefer, weDefer, numVertices, from, to, edges, retN,
                   retEdges, err, wi, writes>>

Next ==
    \/ MainParse
    \/ RgOpen
    \/ RgHeader
    \/ RgFrom
    \/ RgTo
    \/ RgWeight
    \/ RgReturn
    \/ MainAfterRead
    \/ WeCreate
    \/ WeHeader
    \/ WeEdge
    \/ WeDone
    \/ WeReturn
    \/ MainAfterWrite

Spec == Init /\ [][Next]_vars

(* ======================= vocabulary of the claims ====================== *)

\* readGraph has returned to main and its results are in retN, retEdges, err.
RgReturned == pc = "main_read"
\* ... and it had opened the input file.
RgDecoded == RgReturned /\ err.kind # "open"
\* writeEdges has returned to main and its result is in err.
WeReturned == pc = "main_written"

Truncation == {"header", "from", "to", "weight"}
WriteFailure == {"write header", "write edge"}

\* The int16 whose little-endian encoding is word i of the input file
\* (word 0 is the header).
WordAt(i) ==
    CHOOSE v \in NVals \cup WVals :
        EncodeLE(v) = <<inBytes[2 * i + 1], inBytes[2 * i + 2]>>

HasHeader == Len(inBytes) >= 2
EncN == WordAt(0)
\* Number of complete records, and bytes of an incomplete one after them.
NumRecs == (Len(inBytes) - 2) \div 6
Rest == (Len(inBytes) - 2) % 6
Rec(i) == [from |-> WordAt(3 * i - 2), to |-> WordAt(3 * i - 1),
           weight |-> WordAt(3 * i)]
EncEdges == [i \in 1..NumRecs |-> Rec(i)]
InRange(e, n) == 0 <= e.from /\ e.from < n /\ 0 <= e.to /\ e.to < n
\* The complete records whose indices are out of range.
BadRecs == {i \in 1..NumRecs : ~InRange(Rec(i), EncN)}
FirstBad == CHOOSE i \in BadRecs : \A j \in BadRecs : i <= j

\* The decimal text of the int16 values the model tries.
Decimal(v) ==
    CASE v = -32768 -> <<"-", "3", "2", "7", "6", "8">>
      [] v = 0 -> <<"0">>
      [] v = 1 -> <<"1">>
      [] v = 2 -> <<"2">>

RECURSIVE Report(_)
\* The text file for an edge sequence: one "(from, to, weight)" line each.
Report(es) ==
    IF es = <<>> THEN <<>>
    ELSE <<"(">> \o Decimal(Head(es).from) \o <<",", " ">>
         \o Decimal(Head(es).to) \o <<",", " ">>
         \o Decimal(Head(es).weight) \o <<")", "\n">> \o Report(Tail(es))

FullReport(es) == <<"Spisok reber grafa:", "\n">> \o Report(es)

OutData == outFs[outputFile].data
IsPrefix(s, t) == Len(s) <= Len(t) /\ s = SubSeq(t, 1, Len(s))
\* The part of s made of complete lines.
RECURSIVE CompleteLines(_)
CompleteLines(s) ==
    IF s = <<>> \/ s[Len(s)] = "\n" THEN s
    ELSE CompleteLines(SubSeq(s, 1, Len(s) - 1))

(* =============================== claims ================================ *)

\* C1: round trip.  When the input file is the little-endian encoding of a
\* vertex count N followed by the records of an edge sequence E whose
\* indices all lie in [0, N), readGraph returns no error, N, and E in order.
C1_RoundTrip ==
    (RgDecoded /\ HasHeader /\ Rest = 0 /\ BadRecs = {})
        => (err = NoErr /\ retN = EncN /\ retEdges = EncEdges)

C1_Witness ==
    /\ RgDecoded /\ HasHeader /\ Rest = 0 /\ BadRecs = {}
    /\ NumRecs = 2
    /\ EncEdges[1].from # EncEdges[1].to
    /\ EncEdges[1] # EncEdges[2]
    /\ EncEdges[2].weight = -32768

\* C2 as stated: an input whose length is not 2 + 6*E always fails with a
\* truncation error and no edges, whatever its bytes are.
C2_AlwaysTruncation ==
    (RgDecoded /\ (~HasHeader \/ Rest # 0))
        => (err.kind \in Truncation /\ retEdges = <<>>)

\* C2 amended: an input whose length is not 2 + 6*E always fails and returns
\* no edges; the error is a truncation error when every complete record has
\* in-range indices, and the index error of the first out-of-range complete
\* record otherwise.
C2_TruncationUnlessBadRecord ==
    (RgDecoded /\ (~HasHeader \/ Rest # 0))
        => /\ err # NoErr
           /\ retEdges = <<>>
           /\ IF HasHeader /\ BadRecs # {}
              THEN err = IndexErr(Rec(FirstBad).from, Rec(FirstBad).to)
              ELSE err.kind \in Truncation

C2_Witness ==
    /\ RgDecoded /\ HasHeader /\ Rest = 1 /\ NumRecs = 1 /\ BadRecs = {}
    /\ err.kind = "from"
    /\ Len(edges) = 1

\* C3: when readGraph returns without error every returned edge has from and
\* to in [0, numVertices); an input with a complete out-of-range record
\* never decodes successfully.
C3_EdgesInRange ==
    /\ (RgReturned /\ err = NoErr)
          => \A i \in 1..Len(retEdges) : InRange(retEdges[i], retN)
    /\ (RgDecoded /\ HasHeader /\ BadRecs # {}) => err # NoErr

C3_Witness ==
    /\ RgReturned /\ err = NoErr /\ Len(retEdges) = 2 /\ retN = 2
    /\ retEdges[1].to = 1 /\ retEdges[2].from = 1

\* C4: when readGraph returns without error the returned vertex count is
\* not negative.
C4_VertexCountNonNegative ==
    (RgReturned /\ err = NoErr) => retN >= 0

\* C5: when readGraph fails it returns vertex count 0 and no edges, main
\* then terminates without calling writeEdges, and the output paths keep
\* the content they had when the program started.
C5_NoPartialResult ==
    /\ (RgReturned /\ err # NoErr) => (retN = 0 /\ retEdges = <<>>)
    /\ (stdout # <<>> /\ stdout[Len(stdout)] = "read error")
          => /\ pc = "exit"
             /\ outFs = outFs0
             /\ outFd = "none"
             /\ writes = 0
    /\ "read error" \in {stdout[i] : i \in 1..Len(stdout)}
          => stdout = <<"read error">>

C5_Witness ==
    /\ pc = "exit" /\ stdout = <<"read error">>
    /\ err.kind = "indices"
    /\ Len(edges) = 1
    /\ outFs0[outputFile].exists

C6_WitnessEmpty ==
    WeReturned /\ err = NoErr /\ outFs0[outputFile].exists /\ retEdges = <<>>

\* C7: readGraph and writeEdges close the file they opened before they
\* return, on every path, and close nothing when the open failed; at most
\* one file is open, and the input file is closed while the output is open.
C7_ScopedRelease ==
    /\ pc \in {"main_read", "we_create", "we_header", "we_edge", "we_ret",
               "main_written", "exit"} => inFd # "open"
    /\ pc \in {"main_written", "exit"} => outFd # "open"
    /\ (RgReturned /\ err.kind = "open") => inFd = "none"
    /\ (RgReturned /\ err.kind # "open") => inFd = "closed"
    /\ (WeReturned /\ err.kind = "create") => outFd = "none"
    /\ (WeReturned /\ err.kind # "create") => outFd = "closed"
    /\ ~(inFd = "open" /\ outFd = "open")
    /\ outFd = "open" => inFd = "closed"

C7_Witness ==
    WeReturned /\ err.kind = "write edge" /\ outFd = "closed"
               /\ inFd = "closed"

\* C8: without -i, main prints the usage message and returns; no file is
\* opened, read, created, truncated or written.
C8_UsageNoIO ==
    (pc # "main" /\ inputFile = "")
        => /\ pc = "exit"
           /\ stdout = <<"usage">>
           /\ inFd = "none" /\ outFd = "none"
           /\ pos = 0 /\ writes = 0
           /\ outFs = outFs0

C8_Witness ==
    /\ pc = "exit" /\ inputFile = "" /\ outputFile = "edges.txt"
    /\ outFs0[outputFile].exists /\ Len(inBytes) = 8

\* C9: readGraph reports the first failure in stream order and checks the
\* indices of a record only once the record is complete: with a complete
\* out-of-range record the result is the index error of the first such
\* record and nothing after that record was read; otherwise an incomplete
\* record gives a truncation error, also when its from or to is out of
\* range; otherwise the decode succeeds.
C9_FirstFailure ==
    (RgDecoded /\ HasHeader)
        => IF BadRecs # {}
           THEN /\ err = IndexErr(Rec(FirstBad).from, Rec(FirstBad).to)
                /\ pos = 2 + 6 * FirstBad
           ELSE IF Rest # 0
           THEN /\ err.kind \in {"from", "to", "weight"}
                /\ err.kind = (IF Rest = 1 THEN "from"
                               ELSE IF Rest <= 3 THEN "to" ELSE "weight")
           ELSE err = NoErr

C9_Witness ==
    /\ RgDecoded /\ HasHeader /\ BadRecs = {} /\ Rest = 4
    /\ ~InRange([from |-> WordAt(3 * NumRecs + 1),
                 to |-> WordAt(3 * NumRecs + 2)], EncN)
    /\ err.kind = "weight"

C9_WitnessIndex ==
    /\ RgDecoded /\ HasHeader /\ BadRecs # {} /\ FirstBad = 1 /\ NumRecs = 2 /\ Rest = 1
    /\ err.kind = "indices"

\* C10: when a write of writeEdges fails, writeEdges makes no later write,
\* returns the error and closes the file, which stays on disk; its complete
\* lines are the header and the edges before the failing one, and its
\* content is a proper prefix of the report a successful run writes.
C10_WriteFailure ==
    (WeReturned /\ err.kind \in WriteFailure)
        => /\ outFd = "closed"
           /\ outFs[outputFile].exists
           /\ IsPrefix(OutData, FullReport(retEdges))
           /\ OutData # FullReport(retEdges)
           /\ IF err.kind = "write header"
              THEN CompleteLines(OutData) = <<>> /\ writes = 1
              ELSE /\ wi \in 1..Len(retEdges)
                   /\ CompleteLines(OutData)
                         = FullReport(SubSeq(retEdges, 1, wi - 1))
                   /\ writes = wi + 1

C10_Witness ==
    /\ WeReturned /\ err.kind = "write edge" /\ wi = 2
    /\ OutData # CompleteLines(OutData)

====
